---- MODULE Spec2Model ----
(***************************************************************************)
(* GFS/GDAS -> ERA-5 template remapping of ai-models-for-all               *)
(* (src/ai-models-modal/gfs.py) and its caller prepare_gfs_analysis        *)
(* (src/ai-models-modal/main.py).                                          *)
(*                                                                         *)
(* A GRIB message is a record with the keys shortName, typeOfLevel, level, *)
(* values and messagenumber (its 1-based position in the file it was read  *)
(* from).  Grid values are rationals [num, den] so that the transforms     *)
(* x * 9.81 and (x / 1000) * 3600 are computed exactly.                    *)
(***************************************************************************)
EXTENDS Integers, Sequences, FiniteSets, TLC

\* ------------------------------------------------------------------ bounds
MaxTemplate == 2
MaxSource == 3

\* ------------------------------------------------------------- GRIB values
Val(n) == [num |-> n, den |-> 1]

\* Two grids are the same number
SameValue(a, b) == a.num * b.den = b.num * a.den

\* gfs.py:18 identity()
identity(x) == x

\* gfs.py:24
RHO_WATER == 1000

\* a division where the code multiplies
times_g_divides(x) == [num |-> x.num * 100, den |-> x.den * 981]

\* gfs.py:39,45  lambda x: x * 9.81
times_g(x) == [num |-> x.num * 981, den |-> x.den * 100]

\* gfs.py:53  lambda x: (x / RHO_WATER) * 3600 * 1
rate_to_accum(x) == [num |-> x.num * 3600 * 1, den |-> x.den * RHO_WATER]

\* the source grid is copied without applying the mapper's fn
ApplyFn_not_applied(fn, x) == x

\* application of the fn of a grib_mapper
ApplyFn(fn, x) ==
    CASE fn = "times_g" -> times_g(x)
      [] fn = "rate_to_accum" -> rate_to_accum(x)
      [] OTHER -> identity(x)

\* dict.get(key, default)
Get(d, k, default) == IF k \in DOMAIN d THEN d[k] ELSE default

\* ------------------------------------------------------- the mapping table
grib_mapper(source_field, target_field, fn, source_matcher_override) ==
    [source_field |-> source_field, target_field |-> target_field,
     fn |-> fn, source_matcher_override |-> source_matcher_override]

HeightAboveGround(h) == [typeOfLevel |-> "heightAboveGround", level |-> h]

\* gfs.py:38-40
isobaric_mappers ==
    "z" :> grib_mapper("gh", "z", "times_g", <<>>)

\* gfs.py:41-79
surface_mappers ==
    "z" :> grib_mapper("orog", "z", "times_g", <<>>)
    @@ "lsm" :> grib_mapper("lsm", "lsm", "identity", <<>>)
    @@ "tp" :> grib_mapper("prate", "tp", "rate_to_accum", <<>>)
    @@ "msl" :> grib_mapper("prmsl", "msl", "identity",
                            [typeOfLevel |-> "meanSea"])
    @@ "10u" :> grib_mapper("10u", "10u", "identity", HeightAboveGround(10))
    @@ "10v" :> grib_mapper("10v", "10v", "identity", HeightAboveGround(10))
    @@ "100u" :> grib_mapper("100u", "100u", "identity", HeightAboveGround(100))
    @@ "100v" :> grib_mapper("100v", "100v", "identity", HeightAboveGround(100))
    @@ "2t" :> grib_mapper("2t", "2t", "identity", HeightAboveGround(2))
    @@ "tcwv" :> grib_mapper("pwat", "tcwv", "identity",
                   [typeOfLevel |-> "atmosphereSingleLayer", level |-> 0])

\* a table not keyed by level type: every "z", the surface one too, reads
\* the 500 hPa geopotential height
mappers_z_from_gh ==
    [isobaricInhPa |-> isobaric_mappers,
     surface |->
        ("z" :> grib_mapper("gh", "z", "times_g",
                            [typeOfLevel |-> "isobaricInhPa", level |-> 500]))
        @@ surface_mappers]

\* gfs.py:37-80
mappers_by_type_of_level ==
    [isobaricInhPa |-> isobaric_mappers, surface |-> surface_mappers]

\* ------------------------------------------------------------- exceptions
\* An exception: its Python type, the fixed part of its message, the values
\* formatted into the message (a dict, <<>> when there are none) and the line
\* that raised it (from the traceback).
Exception(type, text, args, line) ==
    [type |-> type, text |-> text, args |-> args, line |-> line]

NoException == Exception("", "", <<>>, 0)

\* ------------------------------------------------------------ GRIB files
\* One message of a file: the coded keys and the packed grid
Msg(shortName, typeOfLevel, level, v) ==
    [shortName |-> shortName, typeOfLevel |-> typeOfLevel, level |-> level,
     values |-> Val(v)]

\* Template messages carry zero-filled placeholder grids (main.py:380)
TemplateSlots ==
    { Msg("z", "isobaricInhPa", 500, 0),
      Msg("z", "surface", 0, 0),
      Msg("t", "isobaricInhPa", 500, 0),
      Msg("tcwv", "surface", 0, 0),
      Msg("pwat", "atmosphereSingleLayer", 0, 0) }

\* Source messages; every grid is non-zero
SourceRecords ==
    { Msg("gh", "isobaricInhPa", 500, 2),
      Msg("gh", "isobaricInhPa", 850, 3),
      Msg("orog", "surface", 0, 4),
      Msg("t", "isobaricInhPa", 500, 5),
      Msg("pwat", "atmosphereSingleLayer", 0, 6) }

SeqsUpTo(S, n) == UNION { [1..k -> S] : k \in 0..n }

TemplateFiles == SeqsUpTo(TemplateSlots, MaxTemplate)
SourceFiles == SeqsUpTo(SourceRecords, MaxSource)

\* extra_template_matchers of a call from outside main.py: a level-type
\* restriction (main.py:94 passes the default {})
ExtraMatchers == { [typeOfLevel |-> "surface"] }

\* the k-th message pygrib reads from a file
PygribMessage(file, k) ==
    [shortName |-> file[k].shortName, typeOfLevel |-> file[k].typeOfLevel,
     level |-> file[k].level, values |-> file[k].values, messagenumber |-> k]

\* pygrib.open(path): the messages of the file in file order, each knowing
\* its message number
PygribOpen(file) == [k \in 1..Len(file) |-> PygribMessage(file, k)]

\* grb.tostring(): the coded message, without the position in the file
tostring(grb) ==
    [shortName |-> grb.shortName, typeOfLevel |-> grb.typeOfLevel,
     level |-> grb.level, values |-> grb.values]

\* ----------------------------------------------------------- the selector
\* The keyword arguments of a call reach matchers.items() in the order they
\* were written; every call in gfs.py writes shortName, typeOfLevel, level,
\* and a further key comes after them.
KeyOrder == <<"shortName", "typeOfLevel", "level", "perturbationNumber">>

\* matchers.items(), as the sequence of its keys
MatcherKeys(matchers) == SelectSeq(KeyOrder, LAMBDA k : k \in DOMAIN matchers)

\* pygrib's gribmessage.__getitem__ raises RuntimeError for a key the message
\* does not have
KeyNotFound(line) == Exception("RuntimeError", "Key/value not found", <<>>, line)

\* gfs.py:156: all(...) stops at the first pair that does not compare equal;
\* grb[k] raises when it reaches a key the message lacks before that (there
\* must be such a key at all)
grb_matches_raises(grb, matchers) ==
    LET keys == MatcherKeys(matchers) IN
    /\ ~(DOMAIN matchers \subseteq DOMAIN grb)
    /\ \E j \in DOMAIN keys :
          /\ keys[j] \notin DOMAIN grb
          /\ \A h \in 1..(j - 1) :
                /\ keys[h] \in DOMAIN grb
                /\ grb[keys[h]] = matchers[keys[h]]

\* gfs.py:152-156, the value returned when grb[k] does not raise
grb_matches(grb, matchers) ==
    \A k \in DOMAIN matchers : k \in DOMAIN grb /\ grb[k] = matchers[k]

\* the list comprehension of gfs.py:141 raises what grb_matches raises
MatchingRaises(grbs, matchers) ==
    \E n \in DOMAIN grbs : grb_matches_raises(grbs[n], matchers)

\* gfs.py:143-145: the listing printed before the no-match error subscripts
\* every message with every matcher key
ListingRaises(grbs, matchers) ==
    \E n \in DOMAIN grbs : \E k \in DOMAIN matchers : k \notin DOMAIN grbs[n]

\* the list comprehension of gfs.py:141
MatchingGrbs(grbs, matchers) ==
    SelectSeq(grbs, LAMBDA grb : grb_matches(grb, matchers))

\* the first match is returned when several records match
select_first_match(grbs, matchers) ==
    LET matching_grbs == MatchingGrbs(grbs, matchers) IN
    IF Len(matching_grbs) = 0
    THEN [ok |-> FALSE,
          exc |-> Exception("ValueError", "Could not match GRIB message with",
                            [matchers |-> matchers], 146)]
    ELSE [ok |-> TRUE, grb |-> matching_grbs[1]]

\* a failed selection is logged and answered with a zero-filled record
select_or_default(grbs, matchers) ==
    LET matching_grbs == MatchingGrbs(grbs, matchers) IN
    IF Len(matching_grbs) = 1
    THEN [ok |-> TRUE, grb |-> matching_grbs[1]]
    ELSE [ok |-> TRUE,
          grb |-> [shortName |-> matchers.shortName,
                   typeOfLevel |-> matchers.typeOfLevel,
                   level |-> matchers.level, values |-> Val(0),
                   messagenumber |-> 0]]

\* the message of an ambiguous match names the short name only
select_reports_short_name(grbs, matchers) ==
    LET matching_grbs == MatchingGrbs(grbs, matchers) IN
    IF Len(matching_grbs) = 0
    THEN [ok |-> FALSE,
          exc |-> Exception("ValueError", "Could not match GRIB message with",
                            [matchers |-> matchers], 146)]
    ELSE IF Len(matching_grbs) > 1
    THEN [ok |-> FALSE,
          exc |-> Exception("ValueError", "Multiple matches for",
                            [matchers |-> [shortName |-> matchers.shortName]],
                            148)]
    ELSE [ok |-> TRUE, grb |-> matching_grbs[1]]

\* both failures are raised with the same message
select_same_message(grbs, matchers) ==
    LET matching_grbs == MatchingGrbs(grbs, matchers) IN
    IF Len(matching_grbs) = 0
    THEN [ok |-> FALSE,
          exc |-> Exception("ValueError", "Could not match GRIB message with",
                            [matchers |-> matchers], 146)]
    ELSE IF Len(matching_grbs) > 1
    THEN [ok |-> FALSE,
          exc |-> Exception("ValueError", "Could not match GRIB message with",
                            [matchers |-> matchers], 148)]
    ELSE [ok |-> TRUE, grb |-> matching_grbs[1]]

\* gfs.py:137-149.  The result is either a returned message or a raised
\* exception, which is grb[k]'s when a message lacks a matcher key.
select_grb_from_list(grbs, matchers) ==
    LET matching_grbs == MatchingGrbs(grbs, matchers) IN
    IF MatchingRaises(grbs, matchers)
    THEN [ok |-> FALSE, exc |-> KeyNotFound(156)]
    ELSE IF Len(matching_grbs) = 0
    THEN IF ListingRaises(grbs, matchers)
         THEN [ok |-> FALSE, exc |-> KeyNotFound(145)]
         ELSE [ok |-> FALSE,
               exc |-> Exception("ValueError",
                                 "Could not match GRIB message with",
                                 [matchers |-> matchers], 146)]
    ELSE IF Len(matching_grbs) > 1
    THEN [ok |-> FALSE,
          exc |-> Exception("ValueError", "Multiple matches for",
                            [matchers |-> matchers], 148)]
    ELSE [ok |-> TRUE, grb |-> matching_grbs[1]]

\* pygrib's open.select(**kwargs) with scalar values: the matching messages
\* (gfs.py:186).  The caller raises ValueError when there are none.
PygribSelect(grbs, kwargs) ==
    SelectSeq(grbs, LAMBDA grb : \A k \in DOMAIN kwargs : grb[k] = kwargs[k])

\* pygrib's open.select(shortName=<set>): a container matches by membership
\* (gfs.py:206)
PygribSelectShortNames(grbs, names) ==
    SelectSeq(grbs, LAMBDA grb : grb.shortName \in names)

NoMatchesFound(line) == Exception("ValueError", "no matches found", <<>>, line)

\* ------------------------------------------------- process_gdas_grib, parts
\* the pre-filter is not applied
RetainedTemplate_unfiltered(grbs, extra_template_matchers) == grbs

\* gfs.py:185-188: the retained template messages
RetainedTemplate(grbs, extra_template_matchers) ==
    IF DOMAIN extra_template_matchers # {}
    THEN PygribSelect(grbs, extra_template_matchers)
    ELSE grbs

\* the short names of the mappers' source fields are left out
AllShortNames_template_only(template_grbs) ==
    { template_grbs[k].shortName : k \in DOMAIN template_grbs }

\* gfs.py:202-205
AllShortNames(template_grbs) ==
    { template_grbs[k].shortName : k \in DOMAIN template_grbs }
    \cup UNION { { mappers_by_type_of_level[t][n].source_field :
                     n \in DOMAIN mappers_by_type_of_level[t] } :
                 t \in DOMAIN mappers_by_type_of_level }

\* the overrides of the entry are ignored
MappedMatchers_inherit(grb, mapper) ==
    [shortName |-> mapper.source_field, typeOfLevel |-> grb.typeOfLevel,
     level |-> grb.level]

\* gfs.py:221-223: the matchers of a mapped slot
MappedMatchers(grb, mapper) ==
    [shortName |-> mapper.source_field,
     typeOfLevel |-> Get(mapper.source_matcher_override, "typeOfLevel",
                         grb.typeOfLevel),
     level |-> Get(mapper.source_matcher_override, "level", grb.level)]

\* gfs.py:239-241: the matchers of an unmapped slot
IdentityMatchers(grb) ==
    [shortName |-> grb.shortName, typeOfLevel |-> grb.typeOfLevel,
     level |-> grb.level]

\* gfs.py:215-217: the mapper of a template message.  found = FALSE is the
\* else branch of line 236; raised = TRUE is the KeyError of the subscript of
\* line 215.
LookupMapper(grb) ==
    IF grb.typeOfLevel \notin DOMAIN mappers_by_type_of_level
    THEN [raised |-> TRUE, found |-> FALSE]
    ELSE IF grb.shortName \in DOMAIN mappers_by_type_of_level[grb.typeOfLevel]
    THEN [raised |-> FALSE, found |-> TRUE,
          mapper |-> mappers_by_type_of_level[grb.typeOfLevel][grb.shortName]]
    ELSE [raised |-> FALSE, found |-> FALSE]

\* a mapped slot also takes over the level metadata of its source message
ProcessSlot_takes_source_level(grb, source_grb_list) ==
    LET lookup == LookupMapper(grb) IN
    IF lookup.raised
    THEN [ok |-> FALSE,
          exc |-> Exception("KeyError", grb.typeOfLevel, <<>>, 215)]
    ELSE IF lookup.found
    THEN LET mapper == lookup.mapper
             matchers == MappedMatchers(grb, mapper)
             sel == select_grb_from_list(source_grb_list, matchers)
         IN  IF sel.ok
             THEN [ok |-> TRUE,
                   grb |-> [grb EXCEPT
                              !.values = ApplyFn(mapper.fn, sel.grb.values),
                              !.shortName = mapper.target_field,
                              !.typeOfLevel = sel.grb.typeOfLevel,
                              !.level = sel.grb.level],
                   matchers |-> matchers, mapped |-> TRUE, fn |-> mapper.fn,
                   source_grb |-> sel.grb]
             ELSE [ok |-> FALSE, exc |-> sel.exc]
    ELSE LET matchers == IdentityMatchers(grb)
             sel == select_grb_from_list(source_grb_list, matchers)
         IN  IF sel.ok
             THEN [ok |-> TRUE,
                   grb |-> [grb EXCEPT !.values = sel.grb.values],
                   matchers |-> matchers, mapped |-> FALSE, fn |-> "identity",
                   source_grb |-> sel.grb]
             ELSE [ok |-> FALSE, exc |-> sel.exc]

\* gfs.py:214-251: the body of the loop for one template message.  Either the
\* message as rewritten in place, with the matchers used and the source
\* message chosen, or the exception that leaves the loop.
ProcessSlot(grb, source_grb_list) ==
    LET lookup == LookupMapper(grb) IN
    IF lookup.raised
    THEN [ok |-> FALSE,
          exc |-> Exception("KeyError", grb.typeOfLevel, <<>>, 215)]
    ELSE IF lookup.found
    THEN LET mapper == lookup.mapper
             matchers == MappedMatchers(grb, mapper)
             sel == select_grb_from_list(source_grb_list, matchers)
         IN  IF sel.ok
             THEN [ok |-> TRUE,
                   grb |-> [grb EXCEPT
                              !.values = ApplyFn(mapper.fn, sel.grb.values),
                              !.shortName = mapper.target_field],
                   matchers |-> matchers, mapped |-> TRUE, fn |-> mapper.fn,
                   source_grb |-> sel.grb]
             ELSE [ok |-> FALSE, exc |-> sel.exc]
    ELSE LET matchers == IdentityMatchers(grb)
             sel == select_grb_from_list(source_grb_list, matchers)
         IN  IF sel.ok
             THEN [ok |-> TRUE,
                   grb |-> [grb EXCEPT !.values = sel.grb.values],
                   matchers |-> matchers, mapped |-> FALSE, fn |-> "identity",
                   source_grb |-> sel.grb]
             ELSE [ok |-> FALSE, exc |-> sel.exc]

\* ------------------------------------------------------------------ state
VARIABLES
    pc,                      \* position of the running call
    caller,                  \* "prepare_gfs_analysis", "direct" or ""
    force,                   \* argument of prepare_gfs_analysis
    extra_template_matchers, \* argument of process_gdas_grib
    templateExists,          \* config.make_gfs_template_path(model_name) exists
    cacheRaw,                \* <init-conditions dir>/gdas.raw.grib exists
    cwdRaw,                  \* ./gdas.raw.grib exists
    cacheProc,               \* <init-conditions dir>/gdas.proc.grib
    cwdProc,                 \* ./gdas.proc.grib
    templateFile,            \* messages of the template file, as read
    sourceFile,              \* messages of the source file, as read
    tmplOpen,                \* the template pygrib handle is open
    srcOpen,                 \* the source pygrib handle is open
    template_grbs,           \* local of process_gdas_grib
    source_grb_list,         \* local of process_gdas_grib
    i,                       \* 1-based position of the loop of gfs.py:208
    exc,                     \* the exception that ended the call
    result,                  \* what process_gdas_grib returned
    log,                     \* one entry per assignment to a slot's values
    sel,                     \* a call of select_grb_from_list on its own
    ops,                     \* process_gdas_grib calls running side by side
    app                      \* a run of the local entrypoint main

vars == <<pc, caller, force, extra_template_matchers, templateExists, cacheRaw,
          cwdRaw, cacheProc, cwdProc, templateFile, sourceFile, tmplOpen,
          srcOpen, template_grbs, source_grb_list, i, exc, result, log,
          sel, ops, app>>

fsVars == <<templateExists, cacheRaw, cwdRaw, cacheProc, cwdProc>>
gribVars == <<templateFile, sourceFile, tmplOpen, srcOpen, template_grbs,
              source_grb_list, i, result, log>>

\* the state of prepare_gfs_analysis and of the process_gdas_grib call it makes
pgaVars == <<pc, caller, force, extra_template_matchers, templateExists,
             cacheRaw, cwdRaw, cacheProc, cwdProc, templateFile, sourceFile,
             tmplOpen, srcOpen, template_grbs, source_grb_list, i, exc, result,
             log>>

\* the states of the calls that are looked at on their own
otherVars == <<sel, ops, app>>

\* no call of select_grb_from_list on its own, no side-by-side calls, no run
\* of main
NoSelect == [pc |-> "idle"]
NoOps == <<>>
NoApp == [pc |-> "idle"]

\* A file of GRIB messages on disk: fresh = written by the running call
NoFile == [exists |-> FALSE, fresh |-> FALSE, data |-> <<>>]
OldFile == [exists |-> TRUE, fresh |-> FALSE, data |-> <<>>]
NewFile(data) == [exists |-> TRUE, fresh |-> TRUE, data |-> data]

NotReturned == [returned |-> FALSE, grbs |-> <<>>]
Returned(grbs) == [returned |-> TRUE, grbs |-> grbs]

Init ==
    /\ pc = "idle"
    /\ caller = ""
    /\ force = FALSE
    /\ extra_template_matchers = <<>>
    /\ templateExists \in BOOLEAN
    /\ cacheRaw \in BOOLEAN
    /\ cwdRaw = FALSE
    /\ cacheProc \in {NoFile, OldFile}
    /\ cwdProc = NoFile
    /\ templateFile = <<>>
    /\ sourceFile = <<>>
    /\ tmplOpen = FALSE
    /\ srcOpen = FALSE
    /\ template_grbs = <<>>
    /\ source_grb_list = <<>>
    /\ i = 0
    /\ exc = NoException
    /\ result = NotReturned
    /\ log = <<>>
    /\ sel = NoSelect
    /\ ops = NoOps
    /\ app = NoApp

\* the handles are opened without with-blocks and stay open on an exception
Raise_keeps_handles(e) ==
    /\ pc' = "failed"
    /\ exc' = e
    /\ UNCHANGED <<tmplOpen, srcOpen>>

\* An exception leaves the running call (no handler anywhere in main.py or
\* gfs.py): the with-blocks release their handles on the way out.
Raise(e) ==
    /\ pc' = "failed"
    /\ exc' = e
    /\ tmplOpen' = FALSE
    /\ srcOpen' = FALSE

\* main.py:91-93
MissingTemplateError ==
    Exception("ValueError", "Expected to find GFS/GDAS -> ERA-5 template at",
              <<>>, 91)

\* ------------------------------------------------- prepare_gfs_analysis
\* main.py:38-61: the call and the mkdir of the init-conditions directory
CallPrepare ==
    /\ pc = "idle"
    /\ \E f \in BOOLEAN : force' = f
    /\ caller' = "prepare_gfs_analysis"
    /\ pc' = "pga_66"
    /\ UNCHANGED <<extra_template_matchers, exc>>
    /\ UNCHANGED fsVars
    /\ UNCHANGED gribVars
    /\ UNCHANGED otherVars

\* force is not looked at
PgaShortCircuit_ignores_force ==
    /\ pc = "pga_66"
    /\ cacheProc.exists
    /\ pc' = "done"
    /\ UNCHANGED <<caller, force, extra_template_matchers, exc>>
    /\ UNCHANGED fsVars
    /\ UNCHANGED gribVars
    /\ UNCHANGED otherVars

\* main.py:66-71
PgaShortCircuit ==
    /\ pc = "pga_66"
    /\ cacheProc.exists /\ ~force
    /\ pc' = "done"
    /\ UNCHANGED <<caller, force, extra_template_matchers, exc>>
    /\ UNCHANGED fsVars
    /\ UNCHANGED gribVars
    /\ UNCHANGED otherVars

\* main.py:73-81 with gcs.py:64-91: the blob is written to the relative path
\* raw_gdas_fn
PgaDownload ==
    /\ pc = "pga_66"
    /\ ~(cacheProc.exists /\ ~force)
    /\ cwdRaw' = TRUE
    /\ pc' = "pga_84"
    /\ UNCHANGED <<caller, force, extra_template_matchers, exc>>
    /\ UNCHANGED <<templateExists, cacheRaw, cacheProc, cwdProc>>
    /\ UNCHANGED gribVars
    /\ UNCHANGED otherVars

\* main.py:73-81 with gcs.py:64-91: the credentials are rejected or the
\* download raises; either way no file is left
PgaDownloadFails ==
    /\ pc = "pga_66"
    /\ ~(cacheProc.exists /\ ~force)
    /\ \E e \in { Exception("ValueError",
                            "Service account info was not in the expected format",
                            <<>>, 74),
                  Exception("GoogleCloudError", "download failed", <<>>, 81) } :
          Raise(e)
    /\ UNCHANGED <<caller, force, extra_template_matchers>>
    /\ UNCHANGED fsVars
    /\ UNCHANGED <<templateFile, sourceFile, template_grbs, source_grb_list,
                   i, result, log>>
    /\ UNCHANGED otherVars

\* main.py:84-85
PgaCheckRaw ==
    /\ pc = "pga_84"
    /\ IF ~cacheRaw
       THEN Raise(Exception("RuntimeError", "Failed to download GFS/GDAS blob.",
                            <<>>, 85))
       ELSE /\ pc' = "pga_89"
            /\ UNCHANGED <<exc, tmplOpen, srcOpen>>
    /\ UNCHANGED <<caller, force, extra_template_matchers>>
    /\ UNCHANGED fsVars
    /\ UNCHANGED <<templateFile, sourceFile, template_grbs, source_grb_list,
                   i, result, log>>
    /\ UNCHANGED otherVars

\* the template check is left out: a missing template is read as an empty one
PgaTemplate_no_check ==
    /\ pc = "pga_89"
    /\ pc' = "gfs_184"
    /\ extra_template_matchers' = <<>>
    /\ UNCHANGED <<exc, tmplOpen, srcOpen>>
    /\ UNCHANGED <<caller, force>>
    /\ UNCHANGED fsVars
    /\ UNCHANGED <<templateFile, sourceFile, template_grbs, source_grb_list,
                   i, result, log>>
    /\ UNCHANGED otherVars

\* main.py:89-94: the template check and the call of process_gdas_grib with
\* the default extra_template_matchers
PgaTemplate ==
    /\ pc = "pga_89"
    /\ IF ~templateExists
       THEN Raise(MissingTemplateError)
       ELSE /\ pc' = "gfs_184"
            /\ UNCHANGED <<exc, tmplOpen, srcOpen>>
    /\ extra_template_matchers' = <<>>
    /\ UNCHANGED <<caller, force>>
    /\ UNCHANGED fsVars
    /\ UNCHANGED <<templateFile, sourceFile, template_grbs, source_grb_list,
                   i, result, log>>
    /\ UNCHANGED otherVars

\* main.py:95-107: every returned message is serialised into ./gdas.proc.grib
PgaWrite ==
    /\ pc = "pga_95"
    /\ cwdProc' = NewFile([k \in DOMAIN result.grbs |-> tostring(result.grbs[k])])
    /\ pc' = "pga_113"
    /\ UNCHANGED <<caller, force, extra_template_matchers, exc>>
    /\ UNCHANGED <<templateExists, cacheRaw, cwdRaw, cacheProc>>
    /\ UNCHANGED gribVars
    /\ UNCHANGED otherVars

\* main.py:108-114: shutil.copy into the cache
PgaCopy ==
    /\ pc = "pga_113"
    /\ cacheProc' = cwdProc
    /\ pc' = "pga_117"
    /\ UNCHANGED <<caller, force, extra_template_matchers, exc>>
    /\ UNCHANGED <<templateExists, cacheRaw, cwdRaw, cwdProc>>
    /\ UNCHANGED gribVars
    /\ UNCHANGED otherVars

\* main.py:117-118
PgaCheckProc ==
    /\ pc = "pga_117"
    /\ IF ~cacheProc.exists
       THEN Raise(Exception("RuntimeError",
                            "Failed to produce subset GFS/GDAS GRIB.", <<>>, 118))
       ELSE /\ pc' = "done"
            /\ UNCHANGED <<exc, tmplOpen, srcOpen>>
    /\ UNCHANGED <<caller, force, extra_template_matchers>>
    /\ UNCHANGED fsVars
    /\ UNCHANGED <<templateFile, sourceFile, template_grbs, source_grb_list,
                   i, result, log>>
    /\ UNCHANGED otherVars

\* ---------------------------------------------------- process_gdas_grib
\* gfs.py:159-163: a call from outside main.py with the caller's own two
\* files, on a machine where the cache volume is not populated
CallProcess ==
    /\ pc = "idle"
    /\ ~templateExists /\ ~cacheRaw /\ ~cacheProc.exists
    /\ \E m \in ExtraMatchers : extra_template_matchers' = m
    /\ caller' = "direct"
    /\ pc' = "gfs_184"
    /\ UNCHANGED <<force, exc>>
    /\ UNCHANGED fsVars
    /\ UNCHANGED gribVars
    /\ UNCHANGED otherVars

\* gfs.py:184: the template file is opened
OpenTemplate ==
    /\ pc = "gfs_184"
    /\ \E file \in TemplateFiles : templateFile' = file
    /\ tmplOpen' = TRUE
    /\ pc' = "gfs_185"
    /\ UNCHANGED <<caller, force, extra_template_matchers, exc>>
    /\ UNCHANGED fsVars
    /\ UNCHANGED <<sourceFile, srcOpen, template_grbs, source_grb_list, i,
                   result, log>>
    /\ UNCHANGED otherVars

\* gfs.py:185-189: the retained messages are collected and the handle closed
ReadTemplate ==
    /\ pc = "gfs_185"
    /\ LET grbs == RetainedTemplate(PygribOpen(templateFile),
                                    extra_template_matchers)
       IN  IF DOMAIN extra_template_matchers # {} /\ Len(grbs) = 0
           THEN /\ Raise(NoMatchesFound(186))
                /\ UNCHANGED template_grbs
           ELSE /\ template_grbs' = grbs
                /\ tmplOpen' = FALSE
                /\ pc' = "gfs_192"
                /\ UNCHANGED <<exc, srcOpen>>
    /\ UNCHANGED <<caller, force, extra_template_matchers>>
    /\ UNCHANGED fsVars
    /\ UNCHANGED <<templateFile, sourceFile, source_grb_list, i, result, log>>
    /\ UNCHANGED otherVars

\* gfs.py:192-206: the source file is opened and subset by short name
LoadSource ==
    /\ pc = "gfs_192"
    /\ \E file \in SourceFiles :
         /\ sourceFile' = file
         /\ LET grbs == PygribSelectShortNames(PygribOpen(file),
                                               AllShortNames(template_grbs))
            IN  IF Len(grbs) = 0
                THEN /\ Raise(NoMatchesFound(206))
                     /\ UNCHANGED <<source_grb_list, i>>
                ELSE /\ source_grb_list' = grbs
                     /\ srcOpen' = TRUE
                     /\ i' = 1
                     /\ pc' = "gfs_208"
                     /\ UNCHANGED <<exc, tmplOpen>>
    /\ UNCHANGED <<caller, force, extra_template_matchers>>
    /\ UNCHANGED fsVars
    /\ UNCHANGED <<templateFile, template_grbs, result, log>>
    /\ UNCHANGED otherVars

\* the transform is applied in place to the selected source record
SlotStep_in_place ==
    /\ pc = "gfs_208"
    /\ i <= Len(template_grbs)
    /\ LET slot == ProcessSlot(template_grbs[i], source_grb_list) IN
       IF slot.ok
       THEN /\ template_grbs' = [template_grbs EXCEPT ![i] = slot.grb]
            /\ source_grb_list' =
                 [k \in DOMAIN source_grb_list |->
                    IF source_grb_list[k].messagenumber
                         = slot.source_grb.messagenumber
                    THEN [source_grb_list[k] EXCEPT !.values = slot.grb.values]
                    ELSE source_grb_list[k]]
            /\ log' = Append(log, [slot |-> template_grbs[i].messagenumber,
                                   matchers |-> slot.matchers,
                                   mapped |-> slot.mapped,
                                   fn |-> slot.fn,
                                   source |-> slot.source_grb.messagenumber])
            /\ i' = i + 1
            /\ UNCHANGED <<pc, exc, tmplOpen, srcOpen>>
       ELSE /\ Raise(slot.exc)
            /\ UNCHANGED <<template_grbs, log, i, source_grb_list>>
    /\ UNCHANGED <<caller, force, extra_template_matchers>>
    /\ UNCHANGED fsVars
    /\ UNCHANGED <<templateFile, sourceFile, result>>
    /\ UNCHANGED otherVars

\* gfs.py:208-251: one iteration of the loop over template_grbs
SlotStep ==
    /\ pc = "gfs_208"
    /\ i <= Len(template_grbs)
    /\ LET slot == ProcessSlot(template_grbs[i], source_grb_list) IN
       IF slot.ok
       THEN /\ template_grbs' = [template_grbs EXCEPT ![i] = slot.grb]
            /\ log' = Append(log, [slot |-> template_grbs[i].messagenumber,
                                   matchers |-> slot.matchers,
                                   mapped |-> slot.mapped,
                                   fn |-> slot.fn,
                                   source |-> slot.source_grb.messagenumber])
            /\ i' = i + 1
            /\ UNCHANGED <<pc, exc, tmplOpen, srcOpen>>
       ELSE /\ Raise(slot.exc)
            /\ UNCHANGED <<template_grbs, log, i>>
    /\ UNCHANGED <<caller, force, extra_template_matchers>>
    /\ UNCHANGED fsVars
    /\ UNCHANGED <<templateFile, sourceFile, source_grb_list, result>>
    /\ UNCHANGED otherVars

\* gfs.py:253: the loop is over, the source handle is released and the
\* template messages are returned
Return ==
    /\ pc = "gfs_208"
    /\ i > Len(template_grbs)
    /\ srcOpen' = FALSE
    /\ result' = Returned(template_grbs)
    /\ pc' = IF caller = "prepare_gfs_analysis" THEN "pga_95" ELSE "done"
    /\ UNCHANGED <<caller, force, extra_template_matchers, exc>>
    /\ UNCHANGED fsVars
    /\ UNCHANGED <<templateFile, sourceFile, tmplOpen, template_grbs,
                   source_grb_list, i, log>>
    /\ UNCHANGED otherVars

Next ==
    \/ CallPrepare
    \/ PgaShortCircuit
    \/ PgaDownload
    \/ PgaDownloadFails
    \/ PgaCheckRaw
    \/ PgaTemplate
    \/ PgaWrite
    \/ PgaCopy
    \/ PgaCheckProc
    \/ CallProcess
    \/ OpenTemplate
    \/ ReadTemplate
    \/ LoadSource
    \/ SlotStep
    \/ Return

Spec == Init /\ [][Next]_vars

\* --------------------------------------- select_grb_from_list on its own
MaxPool == 2

\* Messages of an ensemble product carry the key perturbationNumber, the
\* others do not have it
SelectRecords ==
    { Msg("t", "isobaricInhPa", 500, 5) @@ [perturbationNumber |-> 1],
      Msg("t", "isobaricInhPa", 500, 6) @@ [perturbationNumber |-> 2],
      Msg("t", "isobaricInhPa", 500, 7),
      Msg("gh", "isobaricInhPa", 500, 2) }

\* keyword arguments of a call of select_grb_from_list
SelectMatchers ==
    { [shortName |-> "t"],
      [shortName |-> "t", perturbationNumber |-> 1],
      [shortName |-> "gh", perturbationNumber |-> 1],
      [shortName |-> "t", typeOfLevel |-> "isobaricInhPa", level |-> 500] }

\* prepare_gfs_analysis and process_gdas_grib are not called
PgaNotCalled ==
    /\ pc = "idle"
    /\ caller = ""
    /\ force = FALSE
    /\ extra_template_matchers = <<>>
    /\ templateExists = FALSE
    /\ cacheRaw = FALSE
    /\ cwdRaw = FALSE
    /\ cacheProc = NoFile
    /\ cwdProc = NoFile
    /\ templateFile = <<>>
    /\ sourceFile = <<>>
    /\ tmplOpen = FALSE
    /\ srcOpen = FALSE
    /\ template_grbs = <<>>
    /\ source_grb_list = <<>>
    /\ i = 0
    /\ exc = NoException
    /\ result = NotReturned
    /\ log = <<>>

InitSelect ==
    /\ PgaNotCalled
    /\ sel = NoSelect
    /\ ops = NoOps
    /\ app = NoApp

\* gfs.py:137: select_grb_from_list(grbs, **matchers) is called
SelectCall ==
    /\ sel.pc = "idle"
    /\ \E grbs \in SeqsUpTo(SelectRecords, MaxPool) :
       \E matchers \in SelectMatchers :
          sel' = [pc |-> "called", grbs |-> grbs, matchers |-> matchers]
    /\ UNCHANGED pgaVars
    /\ UNCHANGED <<ops, app>>

\* gfs.py:141-149: the call returns a message or raises
SelectFinish ==
    /\ sel.pc = "called"
    /\ LET out == select_grb_from_list(sel.grbs, sel.matchers) IN
       sel' = IF out.ok
              THEN [pc |-> "returned", grbs |-> sel.grbs,
                    matchers |-> sel.matchers, grb |-> out.grb]
              ELSE [pc |-> "raised", grbs |-> sel.grbs,
                    matchers |-> sel.matchers, exc |-> out.exc]
    /\ UNCHANGED pgaVars
    /\ UNCHANGED <<ops, app>>

NextSelect ==
    \/ SelectCall
    \/ SelectFinish

SpecSelect == InitSelect /\ [][NextSelect]_vars

\* ------------------------------ calls of process_gdas_grib side by side
\* Two calls, each a thread of its own with its own arguments and locals
OpIds == {1, 2}

Other(o) == 3 - o

\* template files and source files handed to the calls
OpTemplates ==
    { << Msg("z", "isobaricInhPa", 500, 0), Msg("t", "isobaricInhPa", 500, 0) >>,
      << Msg("z", "surface", 0, 0), Msg("tcwv", "surface", 0, 0) >>,
      << Msg("t", "isobaricInhPa", 500, 0) >> }

OpSources ==
    { << Msg("gh", "isobaricInhPa", 500, 2), Msg("t", "isobaricInhPa", 500, 5),
         Msg("orog", "surface", 0, 4),
         Msg("pwat", "atmosphereSingleLayer", 0, 6) >>,
      << Msg("orog", "surface", 0, 3),
         Msg("pwat", "atmosphereSingleLayer", 0, 7),
         Msg("t", "isobaricInhPa", 500, 8), Msg("t", "isobaricInhPa", 500, 8) >>,
      << Msg("t", "isobaricInhPa", 500, 9) >> }

\* a call that has not started
OpIdle ==
    [pc |-> "idle", templateFile |-> <<>>, sourceFile |-> <<>>,
     template_grbs |-> <<>>, source_grb_list |-> <<>>, i |-> 0,
     result |-> NotReturned, exc |-> NoException, overlapped |-> FALSE]

OpRunning(o) == ops[o].pc \in {"gfs_192", "gfs_208"}

\* the call o moves on to the state st; overlapped records that the other
\* call was in the middle of its run at that moment
OpMoves(o, st) ==
    ops' = [ops EXCEPT
              ![o] = [st EXCEPT !.overlapped = @ \/ OpRunning(Other(o))]]

\* the list is a default argument, shared by the calls
OpTemplateList_default_argument(o) == ops[Other(o)].template_grbs

\* gfs.py:183: template_grbs = [] makes a new list in every call
OpTemplateList(o) == <<>>

\* the pool is kept at module level by the first call that builds it
OpPool_module_level(o) ==
    IF o = 2 /\ ops[1].source_grb_list # <<>>
    THEN ops[1].source_grb_list
    ELSE ops[o].source_grb_list

\* gfs.py:206: source_grb_list is a local of the call
OpPool(o) == ops[o].source_grb_list

InitConcurrent ==
    /\ PgaNotCalled
    /\ sel = NoSelect
    /\ ops = [o \in OpIds |-> OpIdle]
    /\ app = NoApp

\* gfs.py:159-188: the call starts and reads its template
OpOpenTemplate(o) ==
    /\ ops[o].pc = "idle"
    /\ \E template \in OpTemplates : \E source \in OpSources :
         OpMoves(o, [ops[o] EXCEPT
                       !.pc = "gfs_192",
                       !.templateFile = template,
                       !.sourceFile = source,
                       !.template_grbs =
                           OpTemplateList(o)
                           \o RetainedTemplate(PygribOpen(template), <<>>)])
    /\ UNCHANGED pgaVars
    /\ UNCHANGED <<sel, app>>

\* gfs.py:192-206: the call builds its pool
OpLoadSource(o) ==
    /\ ops[o].pc = "gfs_192"
    /\ LET grbs == PygribSelectShortNames(PygribOpen(ops[o].sourceFile),
                                          AllShortNames(ops[o].template_grbs))
       IN  IF Len(grbs) = 0
           THEN OpMoves(o, [ops[o] EXCEPT !.pc = "failed",
                                          !.exc = NoMatchesFound(206)])
           ELSE OpMoves(o, [ops[o] EXCEPT !.pc = "gfs_208",
                                          !.source_grb_list = grbs,
                                          !.i = 1])
    /\ UNCHANGED pgaVars
    /\ UNCHANGED <<sel, app>>

\* gfs.py:208-251: one iteration of the call's loop
OpSlotStep(o) ==
    /\ ops[o].pc = "gfs_208"
    /\ ops[o].i <= Len(ops[o].template_grbs)
    /\ LET slot == ProcessSlot(ops[o].template_grbs[ops[o].i], OpPool(o)) IN
       IF slot.ok
       THEN OpMoves(o, [ops[o] EXCEPT
                          !.template_grbs = [@ EXCEPT ![ops[o].i] = slot.grb],
                          !.i = @ + 1])
       ELSE OpMoves(o, [ops[o] EXCEPT !.pc = "failed", !.exc = slot.exc])
    /\ UNCHANGED pgaVars
    /\ UNCHANGED <<sel, app>>

\* gfs.py:253: the call returns its template messages
OpReturn(o) ==
    /\ ops[o].pc = "gfs_208"
    /\ ops[o].i > Len(ops[o].template_grbs)
    /\ OpMoves(o, [ops[o] EXCEPT !.pc = "done",
                                 !.result = Returned(ops[o].template_grbs)])
    /\ UNCHANGED pgaVars
    /\ UNCHANGED <<sel, app>>

NextConcurrent ==
    \E o \in OpIds :
        \/ OpOpenTemplate(o)
        \/ OpLoadSource(o)
        \/ OpSlotStep(o)
        \/ OpReturn(o)

SpecConcurrent == InitConcurrent /\ [][NextConcurrent]_vars

\* ------------------------------------------------ the local entrypoint
\* ai_models_shim.py:37-72
SUPPORTED_AI_MODELS == <<"panguweather", "fourcastnetv2-small", "graphcast">>

\* names a user may pass: the supported ones, the name the docstring of main
\* gives for FourCastNet, and another name
ModelNames ==
    {"panguweather", "fourcastnetv2-small", "graphcast", "fourcastnet_v2",
     "fourcastnet"}

\* main.py:483: model_name in ai_models_shim.SUPPORTED_AI_MODELS
ModelSupported(model_name) ==
    \E k \in DOMAIN SUPPORTED_AI_MODELS : SUPPORTED_AI_MODELS[k] = model_name

\* the guard looks the name up in the supported models
GfsRejected_checks_supported(use_gfs, model_name) ==
    use_gfs /\ ~ModelSupported(model_name)

\* main.py:491
GfsRejected(use_gfs, model_name) == use_gfs /\ model_name # "panguweather"

\* a call of a remote function, as main and generate_forecast make it
RemoteCall(fn, model_name, use_gfs) ==
    [fn |-> fn, model_name |-> model_name, use_gfs |-> use_gfs]

\* Python's None and str objects
PyNone == [none |-> TRUE, str |-> ""]
PyStr(str) == [none |-> FALSE, str |-> str]

\* The environment of the remote functions, read from .env: a variable is
\* absent, empty, still the placeholder of the sample file, or set
BucketSettings ==
    { <<>>,
      [GCS_BUCKET_NAME |-> ""],
      [GCS_BUCKET_NAME |-> "YOUR_BUCKET_NAME"],
      [GCS_BUCKET_NAME |-> "my-bucket"] }

AccountSettings ==
    { <<>>,
      [GCS_SERVICE_ACCOUNT_INFO |-> ""],
      [GCS_SERVICE_ACCOUNT_INFO |-> "YOUR_SERVICE_ACCOUNT_INFO"],
      [GCS_SERVICE_ACCOUNT_INFO |-> "{}"],
      [GCS_SERVICE_ACCOUNT_INFO |-> "{'type': 'service_account'}"] }

Environments == { b @@ a : b \in BucketSettings, a \in AccountSettings }

\* os.environ.get(key, default)
os_environ_get(env, key, default) ==
    IF key \in DOMAIN env THEN PyStr(env[key]) ELSE default

\* ujson.loads of the strings of AccountSettings: the dict, or the
\* exception of a string that is not JSON
ujson_loads(str) ==
    CASE str = "{}" -> [raised |-> FALSE, value |-> <<>>]
      [] str = "{'type': 'service_account'}" ->
            [raised |-> FALSE, value |-> [type |-> "service_account"]]
      [] OTHER -> [raised |-> TRUE]

\* gcs.py:23-34
get_service_account_json(env) ==
    LET service_account_info ==
            os_environ_get(env, "GCS_SERVICE_ACCOUNT_INFO", PyStr(""))
    IN  IF service_account_info.str = ""
        THEN [raised |-> FALSE, value |-> <<>>]
        ELSE ujson_loads(service_account_info.str)

\* config.py:45-49: validate_env passes
validate_env(env) ==
    /\ os_environ_get(env, "GCS_SERVICE_ACCOUNT_INFO", PyStr("")).str
          # "YOUR_SERVICE_ACCOUNT_INFO"
    /\ os_environ_get(env, "GCS_BUCKET_NAME", PyStr("")).str
          # "YOUR_BUCKET_NAME"

\* main.py:432: (bucket_name is None) or (not service_account_info)
UploadSkipped(bucket_name, service_account_info) ==
    \/ bucket_name.none
    \/ DOMAIN service_account_info = {}

\* the existence check is left out
init_model_for_gfs_raises_never(proc_exists) == FALSE

\* main.py:278-282: _init_model_for_gfs raises when the processed file is
\* not in the init-conditions directory
init_model_for_gfs_raises(proc_exists) == ~proc_exists

\* a run before its first step: where it was entered, its arguments, the
\* remote calls made, the template and the processed file on the volume, the
\* environment, the steps of generate_forecast passed, the uploads made
AppStart ==
    [pc |-> "idle", entry |-> "", model_name |-> "", use_gfs |-> FALSE,
     run_checks |-> FALSE, run_forecast |-> FALSE, calls |-> <<>>,
     exc |-> NoException, template_exists |-> FALSE, proc_exists |-> FALSE,
     env |-> <<>>, trace |-> <<>>, uploads |-> <<>>, skipped |-> FALSE]

AppRaises(type, line) ==
    [app EXCEPT !.pc = "raised", !.exc = Exception(type, "", <<>>, line)]

InitMain ==
    /\ PgaNotCalled
    /\ sel = NoSelect
    /\ ops = NoOps
    /\ app = NoApp

\* main.py:459-466: main is started with its command-line arguments
MainCall ==
    /\ app.pc = "idle"
    /\ \E model_name \in ModelNames :
       \E use_gfs \in BOOLEAN, run_checks \in BOOLEAN, run_forecast \in BOOLEAN :
       \E template_exists \in BOOLEAN, proc_exists \in BOOLEAN :
          app' = [AppStart EXCEPT
                    !.pc = "main_483", !.entry = "main",
                    !.model_name = model_name, !.use_gfs = use_gfs,
                    !.run_checks = run_checks, !.run_forecast = run_forecast,
                    !.template_exists = template_exists,
                    !.proc_exists = proc_exists]
    /\ UNCHANGED pgaVars
    /\ UNCHANGED <<sel, ops>>

\* main.py:483-487
MainCheckModel ==
    /\ app.pc = "main_483"
    /\ app' = IF ~ModelSupported(app.model_name)
              THEN [app EXCEPT
                      !.pc = "raised",
                      !.exc = Exception("ValueError",
                                        "User provided model_name is not supported",
                                        [model_name |-> app.model_name], 484)]
              ELSE [app EXCEPT !.pc = "main_491"]
    /\ UNCHANGED pgaVars
    /\ UNCHANGED <<sel, ops>>

\* main.py:491-492
MainCheckGfs ==
    /\ app.pc = "main_491"
    /\ app' = IF GfsRejected(app.use_gfs, app.model_name)
              THEN [app EXCEPT
                      !.pc = "raised",
                      !.exc = Exception("ValueError",
                                        "Can only use GFS initial conditions with PanguWeather model.",
                                        <<>>, 492)]
              ELSE [app EXCEPT !.pc = "main_494"]
    /\ UNCHANGED pgaVars
    /\ UNCHANGED <<sel, ops>>

\* main.py:494-495: check_assets.remote() returns or raises (main.py:129-160)
MainRunChecks ==
    /\ app.pc = "main_494"
    /\ IF app.run_checks
       THEN \E raised \in BOOLEAN :
              app' = [app EXCEPT
                        !.calls = Append(@, RemoteCall("check_assets", "", FALSE)),
                        !.pc = IF raised THEN "raised" ELSE "main_496",
                        !.exc = IF raised
                                THEN Exception("AssertionError", "", <<>>, 135)
                                ELSE @]
       ELSE app' = [app EXCEPT !.pc = "main_496"]
    /\ UNCHANGED pgaVars
    /\ UNCHANGED <<sel, ops>>

\* main.py:496-502: generate_forecast.remote(...) is called; the remote
\* function runs with the environment of the .env file
MainRunForecast ==
    /\ app.pc = "main_496"
    /\ IF app.run_forecast
       THEN \E env \in Environments :
              app' = [app EXCEPT
                        !.calls = Append(@, RemoteCall("generate_forecast",
                                                       app.model_name,
                                                       app.use_gfs)),
                        !.env = env,
                        !.pc = "gf_404"]
       ELSE app' = [app EXCEPT !.pc = "done"]
    /\ UNCHANGED pgaVars
    /\ UNCHANGED <<sel, ops>>

\* main.py:404-405: validate_env; the CDS key it also looks at is a
\* placeholder or not
GfSetUp ==
    /\ app.pc = "gf_404"
    /\ \E cds_key_set \in BOOLEAN :
         app' = IF cds_key_set /\ validate_env(app.env)
                THEN [app EXCEPT !.pc = "gf_410"]
                ELSE AppRaises("AssertionError", 405)
    /\ UNCHANGED pgaVars
    /\ UNCHANGED <<sel, ops>>

\* main.py:410 with 320-385: _maybe_download_assets fetches the weights and,
\* for panguweather, writes the template when it is missing; a download may
\* raise
GfAssets ==
    /\ app.pc = "gf_410"
    /\ \E raised \in BOOLEAN :
         app' = IF raised
                THEN AppRaises("HTTPError", 410)
                ELSE [app EXCEPT
                        !.template_exists =
                            @ \/ app.model_name = "panguweather",
                        !.trace = Append(@, "assets_done"),
                        !.pc = "gf_413"]
    /\ UNCHANGED pgaVars
    /\ UNCHANGED <<sel, ops>>

\* main.py:413-414: prepare_gfs_analysis.remote(model_name, model_init) is
\* called when use_gfs
GfPrepare ==
    /\ app.pc = "gf_413"
    /\ app' = IF app.use_gfs
              THEN [app EXCEPT
                      !.calls = Append(@, RemoteCall("prepare_gfs_analysis",
                                                     app.model_name, TRUE)),
                      !.trace = Append(@, "pga_start"),
                      !.pc = "gf_414"]
              ELSE [app EXCEPT !.pc = "gf_415"]
    /\ UNCHANGED pgaVars
    /\ UNCHANGED <<sel, ops>>

\* main.py:38-118, force = False: prepare_gfs_analysis returns at once when
\* the processed file exists (66-71); otherwise it raises on the way, or,
\* with the template in place (89-93), leaves the processed file in the
\* init-conditions directory (113-118) and returns
GfPrepareEnds ==
    /\ app.pc = "gf_414"
    /\ \E raised \in BOOLEAN :
         app' = IF app.proc_exists
                THEN [app EXCEPT !.trace = Append(@, "pga_done"),
                                 !.pc = "gf_415"]
                ELSE IF raised \/ ~app.template_exists
                THEN AppRaises("RuntimeError", 414)
                ELSE [app EXCEPT !.proc_exists = TRUE,
                                 !.trace = Append(@, "pga_done"),
                                 !.pc = "gf_415"]
    /\ UNCHANGED pgaVars
    /\ UNCHANGED <<sel, ops>>

\* main.py:415-418: AIModel(...) and run_model.remote(), which starts the
\* container of the class
GfRunModel ==
    /\ app.pc = "gf_415"
    /\ app' = [app EXCEPT
                 !.calls = Append(@, RemoteCall("run_model", app.model_name,
                                                app.use_gfs)),
                 !.pc = "cls_222"]
    /\ UNCHANGED pgaVars
    /\ UNCHANGED <<sel, ops>>

\* main.py:192-220, 309-312: the class is used without generate_forecast,
\* AIModel("panguweather", model_init, lead_time, use_gfs).run_model.remote()
AIModelCall ==
    /\ app.pc = "idle"
    /\ \E use_gfs \in BOOLEAN, proc_exists \in BOOLEAN :
         app' = [AppStart EXCEPT
                   !.pc = "cls_222", !.entry = "AIModel",
                   !.model_name = "panguweather", !.use_gfs = use_gfs,
                   !.template_exists = TRUE,
                   !.proc_exists = proc_exists,
                   !.calls = <<RemoteCall("run_model", "panguweather",
                                          use_gfs)>>]
    /\ UNCHANGED pgaVars
    /\ UNCHANGED <<sel, ops>>

\* main.py:222-235 with 268-285: __enter__ initializes the model
ModelEnter ==
    /\ app.pc = "cls_222"
    /\ app' = IF app.use_gfs /\ init_model_for_gfs_raises(app.proc_exists)
              THEN AppRaises("RuntimeError", 279)
              ELSE [app EXCEPT !.trace = Append(@, "init"),
                               !.pc = "cls_311"]
    /\ UNCHANGED pgaVars
    /\ UNCHANGED <<sel, ops>>

\* main.py:309-312: run_model starts the model run, which ends or raises
ModelRun ==
    /\ app.pc = "cls_311"
    /\ \E raised \in BOOLEAN :
         app' = IF raised
                THEN [AppRaises("RuntimeError", 312) EXCEPT
                        !.trace = Append(@, "run_start")]
                ELSE [app EXCEPT
                        !.trace = Append(@, "run_start"),
                        !.pc = IF app.entry = "main" THEN "gf_421"
                               ELSE "done"]
    /\ UNCHANGED pgaVars
    /\ UNCHANGED <<sel, ops>>

\* main.py:421-446: the output file is looked for, then the upload is made
\* or skipped; the credentials or the upload may be refused
GfUpload ==
    /\ app.pc = "gf_421"
    /\ LET bucket_name == os_environ_get(app.env, "GCS_BUCKET_NAME", PyStr(""))
           service_account_info == get_service_account_json(app.env)
       IN  IF service_account_info.raised
           THEN app' = AppRaises("JSONDecodeError", 430)
           ELSE IF UploadSkipped(bucket_name, service_account_info.value)
           THEN app' = [app EXCEPT !.skipped = TRUE, !.pc = "done"]
           ELSE \E outcome \in {"no_client", "uploaded", "upload_raised"} :
                  app' = CASE outcome = "no_client" ->
                                AppRaises("ValueError", 437)
                           [] outcome = "uploaded" ->
                                [app EXCEPT
                                   !.uploads = Append(@, bucket_name.str),
                                   !.pc = "done"]
                           [] outcome = "upload_raised" ->
                                [AppRaises("GoogleCloudError", 442) EXCEPT
                                   !.uploads = Append(@, bucket_name.str)]
    /\ UNCHANGED pgaVars
    /\ UNCHANGED <<sel, ops>>

NextMain ==
    \/ MainCall
    \/ MainCheckModel
    \/ MainCheckGfs
    \/ MainRunChecks
    \/ MainRunForecast
    \/ GfSetUp
    \/ GfAssets
    \/ GfPrepare
    \/ GfPrepareEnds
    \/ GfRunModel
    \/ AIModelCall
    \/ ModelEnter
    \/ ModelRun
    \/ GfUpload

SpecMain == InitMain /\ [][NextMain]_vars

\* ============================================================ properties
Range(s) == { s[k] : k \in DOMAIN s }

\* the number of messages of grbs that carry every matcher value
MatchCount(grbs, matchers) ==
    Cardinality({ k \in DOMAIN grbs :
                    \A key \in DOMAIN matchers : grbs[k][key] = matchers[key] })

\* the template message number n as it was read, before any rewriting
OrigSlot(n) == PygribMessage(templateFile, n)

\* the source message number n
SourceMsg(n) == PygribMessage(sourceFile, n)

\* the template message number n as it is now
OutSlot(grbs, n) == CHOOSE g \in Range(grbs) : g.messagenumber = n

HasEntry(slot) ==
    /\ slot.typeOfLevel \in DOMAIN mappers_by_type_of_level
    /\ slot.shortName \in DOMAIN mappers_by_type_of_level[slot.typeOfLevel]

EntryOf(slot) == mappers_by_type_of_level[slot.typeOfLevel][slot.shortName]

\* the matcher set a slot requires of its source record
RequiredMatchers(slot) ==
    IF HasEntry(slot)
    THEN LET over == EntryOf(slot).source_matcher_override IN
         [shortName |-> EntryOf(slot).source_field,
          typeOfLevel |-> IF "typeOfLevel" \in DOMAIN over
                          THEN over.typeOfLevel ELSE slot.typeOfLevel,
          level |-> IF "level" \in DOMAIN over THEN over.level ELSE slot.level]
    ELSE [shortName |-> slot.shortName, typeOfLevel |-> slot.typeOfLevel,
          level |-> slot.level]

\* out is the transform named fn of src, as numbers
IsTransformOf(fn, src, out) ==
    CASE fn = "times_g" ->
            out.num * 100 * src.den = src.num * 981 * out.den
      [] fn = "rate_to_accum" ->
            out.num * 1000 * src.den = src.num * 3600 * out.den
      [] OTHER -> out = src

\* the transform a slot requires: its entry's, identity without an entry
RequiredFn(slot) == IF HasEntry(slot) THEN EntryOf(slot).fn ELSE "identity"

\* the template messages kept by the pre-filter, in file order
Retained ==
    SelectSeq(PygribOpen(templateFile),
              LAMBDA g : \A k \in DOMAIN extra_template_matchers :
                            g[k] = extra_template_matchers[k])

SelectionFailed == pc = "failed" /\ exc.line \in {146, 148}

\* C1: select_grb_from_list returns a record only when exactly one record of
\* the pool satisfies all matchers, and then that record; it raises with no
\* matching record and raises with two or more instead of returning one.
C1_ExactlyOneMatch ==
    /\ \A e \in Range(log) :
          /\ MatchCount(source_grb_list, e.matchers) = 1
          /\ \E k \in DOMAIN source_grb_list :
                /\ source_grb_list[k].messagenumber = e.source
                /\ \A key \in DOMAIN e.matchers :
                      source_grb_list[k][key] = e.matchers[key]
    /\ (pc = "failed" /\ exc.line = 146) =>
          MatchCount(source_grb_list, exc.args.matchers) = 0
    /\ (pc = "failed" /\ exc.line = 148) =>
          MatchCount(source_grb_list, exc.args.matchers) >= 2

\* one selection returned a record and a later one found two candidates
C1_Witness ==
    /\ pc = "failed" /\ exc.line = 148
    /\ Len(log) >= 1
    /\ MatchCount(source_grb_list, exc.args.matchers) = 2

\* C2: whenever process_gdas_grib returns, every returned slot was written
\* exactly once, with its transform (identity without an entry) of the values
\* of the single source record matching its required matchers; no slot keeps
\* the zero-filled placeholder grid of the template.
C2_EverySlotFilledOnce ==
    result.returned =>
        \A j \in DOMAIN result.grbs :
            LET out == result.grbs[j]
                slot == OrigSlot(out.messagenumber)
                writes == { k \in DOMAIN log : log[k].slot = out.messagenumber }
            IN  /\ Cardinality(writes) = 1
                /\ \A k \in writes :
                      /\ log[k].matchers = RequiredMatchers(slot)
                      /\ MatchCount(PygribOpen(sourceFile), log[k].matchers) = 1
                      /\ MatchCount(<<SourceMsg(log[k].source)>>,
                                    log[k].matchers) = 1
                      /\ IsTransformOf(RequiredFn(slot),
                                       SourceMsg(log[k].source).values,
                                       out.values)
                /\ ~SameValue(out.values, slot.values)
                /\ out.values.num # 0

\* a run returned two slots, one mapped and one copied
C2_Witness ==
    /\ result.returned
    /\ Len(result.grbs) = 2
    /\ \E a, b \in Range(log) : a.mapped /\ ~b.mapped

\* C3: the returned sequence has as many elements as the retained template
\* sequence and its i-th element is the i-th retained template slot.
C3_StructurePreserved ==
    result.returned =>
        /\ Len(result.grbs) = Len(Retained)
        /\ \A j \in DOMAIN result.grbs :
              /\ result.grbs[j].messagenumber = Retained[j].messagenumber
              /\ result.grbs[j].typeOfLevel = Retained[j].typeOfLevel
              /\ result.grbs[j].level = Retained[j].level

\* the pre-filter dropped a slot and the run returned the retained one
C3_Witness ==
    /\ result.returned
    /\ DOMAIN extra_template_matchers # {}
    /\ Len(templateFile) = 2
    /\ Len(result.grbs) = 1
    /\ result.grbs[1].messagenumber = 2

\* the slot the loop is at has no single record for its required matchers
SlotSelectionFails ==
    /\ pc = "gfs_208"
    /\ i <= Len(template_grbs)
    /\ MatchCount(source_grb_list, RequiredMatchers(template_grbs[i])) # 1

\* C4: when the selection for a slot fails, process_gdas_grib aborts without
\* returning, and prepare_gfs_analysis neither writes ./gdas.proc.grib nor
\* copies it into the cache: no partial result is returned or persisted.
C4_NoPartialOutput ==
    /\ [][SlotSelectionFails =>
            /\ pc' = "failed"
            /\ result' = NotReturned
            /\ cwdProc' = cwdProc
            /\ cacheProc' = cacheProc]_vars
    /\ [](pc = "failed" =>
            /\ result = NotReturned
            /\ ~cwdProc.fresh
            /\ ~cacheProc.fresh)

\* prepare_gfs_analysis failed on the second slot after filling the first,
\* with an older processed file in the cache
C4_Witness ==
    /\ SelectionFailed
    /\ caller = "prepare_gfs_analysis"
    /\ Len(log) = 1
    /\ cacheProc = OldFile

\* the exception left the loop of gfs.py:208 at the slot i
FailedInLoop == pc = "failed" /\ exc.line \in {146, 148, 215}

\* C5: a slot whose (level_type, short_name) has no table entry, whatever its
\* level_type, is an identity mapping: the record with identical short_name,
\* level_type and level is selected, its values are copied unchanged and the
\* short_name stays.
C5_IdentityForUnmappedSlots ==
    /\ \A e \in Range(log) :
          ~HasEntry(OrigSlot(e.slot)) =>
              /\ e.matchers = [shortName |-> OrigSlot(e.slot).shortName,
                               typeOfLevel |-> OrigSlot(e.slot).typeOfLevel,
                               level |-> OrigSlot(e.slot).level]
              /\ OutSlot(template_grbs, e.slot).values = SourceMsg(e.source).values
              /\ OutSlot(template_grbs, e.slot).shortName = OrigSlot(e.slot).shortName
    /\ (FailedInLoop /\ ~HasEntry(template_grbs[i])) =>
          /\ exc.line \in {146, 148}
          /\ exc.args.matchers = [shortName |-> template_grbs[i].shortName,
                                  typeOfLevel |-> template_grbs[i].typeOfLevel,
                                  level |-> template_grbs[i].level]

\* what the code searches for a slot: the matchers reported when the pool
\* holds nothing
SearchedFor(shortName, typeOfLevel, level) ==
    ProcessSlot(Msg(shortName, typeOfLevel, level, 0), <<>>).exc.args.matchers

Matchers(shortName, typeOfLevel, level) ==
    [shortName |-> shortName, typeOfLevel |-> typeOfLevel, level |-> level]

SlotLevels == {0, 7}

\* the searches of the surface slots named by C6, for each slot level
ListedSurfaceSearches ==
    \A lv \in SlotLevels :
        /\ SearchedFor("tcwv", "surface", lv)
              = Matchers("pwat", "atmosphereSingleLayer", 0)
        /\ SearchedFor("10u", "surface", lv)
              = Matchers("10u", "heightAboveGround", 10)
        /\ SearchedFor("10v", "surface", lv)
              = Matchers("10v", "heightAboveGround", 10)
        /\ SearchedFor("100u", "surface", lv)
              = Matchers("100u", "heightAboveGround", 100)
        /\ SearchedFor("100v", "surface", lv)
              = Matchers("100v", "heightAboveGround", 100)
        /\ SearchedFor("2t", "surface", lv)
              = Matchers("2t", "heightAboveGround", 2)
        /\ SearchedFor("msl", "surface", lv) = Matchers("prmsl", "meanSea", lv)

\* C6: a slot with a table entry is searched with short_name = the entry's
\* source field and with level_type and level taken from the entry's override
\* where it defines one, else from the slot; so surface tcwv is searched as
\* (pwat, atmosphereSingleLayer, 0), surface 10u/10v/100u/100v/2t as
\* heightAboveGround at 10/10/100/100/2 and msl as (prmsl, meanSea, slot level).
C6_MappedSlotMatchers ==
    /\ \A e \in Range(log) :
          HasEntry(OrigSlot(e.slot)) =>
              e.mapped /\ e.matchers = RequiredMatchers(OrigSlot(e.slot))
    /\ (SelectionFailed /\ HasEntry(template_grbs[i])) =>
          exc.args.matchers = RequiredMatchers(template_grbs[i])
    /\ pc = "idle" => ListedSurfaceSearches

\* a surface tcwv slot was filled from the precipitable water record
C6_Witness ==
    \E e \in Range(log) :
        /\ OrigSlot(e.slot).shortName = "tcwv"
        /\ SourceMsg(e.source).shortName = "pwat"
        /\ SourceMsg(e.source).typeOfLevel = "atmosphereSingleLayer"

\* C7: a surface slot z is populated from the surface orog record, never from
\* an isobaric record, and an isobaric slot z at level L from the isobaric gh
\* record at level L.
C7_SurfaceZFromOrog ==
    \A e \in Range(log) :
        LET slot == OrigSlot(e.slot)
            src == SourceMsg(e.source)
        IN  /\ (slot.shortName = "z" /\ slot.typeOfLevel = "surface") =>
                  /\ src.shortName = "orog"
                  /\ src.typeOfLevel = "surface"
            /\ (slot.shortName = "z" /\ slot.typeOfLevel = "isobaricInhPa") =>
                  /\ src.shortName = "gh"
                  /\ src.typeOfLevel = "isobaricInhPa"
                  /\ src.level = slot.level

\* the source holds gh at two isobaric levels and one surface orog; a surface
\* z slot and an isobaric z slot were both filled and returned
C7_Witness ==
    /\ result.returned
    /\ Cardinality({ m.level : m \in { r \in Range(sourceFile) :
                                        r.typeOfLevel = "isobaricInhPa" } }) = 2
    /\ Cardinality({ k \in DOMAIN sourceFile :
                        sourceFile[k].typeOfLevel = "surface" }) = 1
    /\ \E a, b \in Range(log) :
          /\ OrigSlot(a.slot).typeOfLevel = "surface"
          /\ OrigSlot(a.slot).shortName = "z"
          /\ OrigSlot(b.slot).typeOfLevel = "isobaricInhPa"
          /\ OrigSlot(b.slot).shortName = "z"

\* C8: an isobaric slot z at level 500 filled from the record (gh,
\* isobaricInhPa, 500) with values v has short_name z and values v * 9.81.
C8_GeopotentialScaled ==
    \A e \in Range(log) :
        LET slot == OrigSlot(e.slot)
            src == SourceMsg(e.source)
            out == OutSlot(template_grbs, e.slot)
        IN  ( /\ slot.shortName = "z"
              /\ slot.typeOfLevel = "isobaricInhPa"
              /\ slot.level = 500
              /\ src.shortName = "gh"
              /\ src.typeOfLevel = "isobaricInhPa"
              /\ src.level = 500 ) =>
                /\ out.shortName = "z"
                /\ out.values.num * 100 * src.values.den
                      = src.values.num * 981 * out.values.den

\* the slot z at 500 hPa was filled from gh = 2 and holds 19.62
C8_Witness ==
    \E k \in DOMAIN template_grbs :
        /\ template_grbs[k].shortName = "z"
        /\ template_grbs[k].level = 500
        /\ template_grbs[k].values.num * 100 = 1962 * template_grbs[k].values.den

AmbiguousMatchRaised == pc = "failed" /\ exc.line = 148

\* C9 as stated: the error of an ambiguous match carries both the exact
\* matcher set and the number of matching records.
C9_CarriesMatchersAndCount ==
    AmbiguousMatchRaised =>
        /\ "matchers" \in DOMAIN exc.args
        /\ exc.args.matchers = RequiredMatchers(template_grbs[i])
        /\ "count" \in DOMAIN exc.args
        /\ exc.args.count = MatchCount(source_grb_list, exc.args.matchers)

\* C9 amended: the error of an ambiguous match carries the exact matcher set
\* and nothing else; the number of matching records is not part of it.
C9_CarriesMatchersOnly ==
    AmbiguousMatchRaised =>
        /\ exc.type = "ValueError"
        /\ exc.text = "Multiple matches for"
        /\ DOMAIN exc.args = {"matchers"}
        /\ exc.args.matchers = RequiredMatchers(template_grbs[i])

\* a direct call failed on its first slot with two candidates
C9_Witness ==
    /\ AmbiguousMatchRaised
    /\ caller = "direct"
    /\ Len(log) = 0
    /\ MatchCount(source_grb_list, RequiredMatchers(template_grbs[i])) = 2

\* the three failure kinds and the line that raises each
FailureKinds == {"NoMatch", "AmbiguousMatch", "MissingTemplate"}

KindRaisedAt(line) ==
    CASE line = 146 -> "NoMatch"
      [] line = 148 -> "AmbiguousMatch"
      [] line = 91 -> "MissingTemplate"

\* the exception the code raises for each kind
ErrorOfKind(kind) ==
    CASE kind = "NoMatch" ->
            select_grb_from_list(<<>>, Matchers("t", "isobaricInhPa", 500)).exc
      [] kind = "AmbiguousMatch" ->
            select_grb_from_list(
                PygribOpen(<<Msg("t", "isobaricInhPa", 500, 5),
                             Msg("t", "isobaricInhPa", 500, 5)>>),
                Matchers("t", "isobaricInhPa", 500)).exc
      [] kind = "MissingTemplate" -> MissingTemplateError

KindFailure == pc = "failed" /\ exc.line \in {146, 148, 91}

\* C10 as stated: NoMatch, AmbiguousMatch and MissingTemplate reach the caller
\* as pairwise distinct error kinds.
C10_DistinctErrorKinds ==
    KindFailure =>
        \A kind \in FailureKinds \ {KindRaisedAt(exc.line)} :
            exc.type # ErrorOfKind(kind).type

\* C10 amended: the three failures reach the caller as one error kind,
\* ValueError; only their message texts differ pairwise.
C10_OneKindDistinctMessages ==
    KindFailure =>
        /\ exc.type = "ValueError"
        /\ \A kind \in FailureKinds \ {KindRaisedAt(exc.line)} :
              /\ exc.type = ErrorOfKind(kind).type
              /\ exc.text # ErrorOfKind(kind).text

\* prepare_gfs_analysis failed because a slot had no source record
C10_Witness ==
    /\ KindFailure
    /\ exc.line = 146
    /\ caller = "prepare_gfs_analysis"
    /\ exc.text = "Could not match GRIB message with"

\* the positions inside process_gdas_grib
GfsPositions == {"gfs_184", "gfs_185", "gfs_192", "gfs_208"}

\* no step of process_gdas_grib has been taken
NeverProcessed ==
    /\ pc \notin GfsPositions
    /\ templateFile = <<>> /\ sourceFile = <<>>
    /\ template_grbs = <<>> /\ source_grb_list = <<>>
    /\ log = <<>>
    /\ result = NotReturned

SourceStore == PygribOpen(sourceFile)

\* C12: for every template slot, selecting its required matchers from the
\* short-name-restricted pool gives the same record, the same NoMatch or the
\* same AmbiguousMatch as selecting them from the complete source store, with
\* the same match count, checked when the loop is entered with the pool just
\* built (it does not change afterwards, C13); and when the restriction
\* leaves no record at all, no slot has a match in the complete store either.
C12_PoolEquivalentToStore ==
    /\ (pc = "gfs_208" /\ i = 1) =>
         LET store == SourceStore IN
         \A k \in DOMAIN template_grbs :
            LET matchers == RequiredMatchers(template_grbs[k]) IN
            /\ select_grb_from_list(source_grb_list, matchers)
                 = select_grb_from_list(store, matchers)
            /\ MatchCount(source_grb_list, matchers)
                 = MatchCount(store, matchers)
    /\ (pc = "failed" /\ exc = NoMatchesFound(206)) =>
         \A k \in DOMAIN template_grbs :
            MatchCount(SourceStore, RequiredMatchers(template_grbs[k])) = 0

\* the pool is shorter than the store, and a mapped slot still finds its one
\* record in it
C12_Witness ==
    /\ pc = "gfs_208"
    /\ i = 1
    /\ Len(source_grb_list) < Len(SourceStore)
    /\ \E k \in DOMAIN template_grbs :
          /\ HasEntry(template_grbs[k])
          /\ select_grb_from_list(source_grb_list,
                                  RequiredMatchers(template_grbs[k])).ok

\* C13: a call of the selector, successful or failed, leaves the candidate
\* pool with the same records in the same order, and over a whole run of
\* process_gdas_grib every pool record stays the message that was read from
\* the source file: only template slots are written.
C13_SelectorHasNoSideEffects ==
    /\ [][pc = "gfs_208" =>
            /\ source_grb_list' = source_grb_list
            /\ sourceFile' = sourceFile]_vars
    /\ [](\A k \in DOMAIN source_grb_list :
            source_grb_list[k] = SourceMsg(source_grb_list[k].messagenumber))

\* a selection that succeeded with a transform and a selection that failed,
\* over a pool of several records
C13_Witness ==
    /\ pc = "failed"
    /\ exc.line = 146
    /\ Len(log) = 1
    /\ log[1].fn = "times_g"
    /\ Len(source_grb_list) >= 2

\* C14: at every moment of a run each template slot keeps the level_type,
\* the level and the position it was read with; a slot the loop has passed
\* differs from the slot as read in its values and, when it has an entry, in
\* its short_name, which is the entry's target_field; a slot the loop has not
\* reached is unchanged.
C14_OnlyValuesAndShortNameChange ==
    \A k \in DOMAIN template_grbs :
        LET grb == template_grbs[k]
            orig == OrigSlot(grb.messagenumber)
        IN  /\ DOMAIN grb = DOMAIN orig
            /\ grb.typeOfLevel = orig.typeOfLevel
            /\ grb.level = orig.level
            /\ grb.shortName = IF k < i /\ HasEntry(orig)
                               THEN EntryOf(orig).target_field
                               ELSE orig.shortName
            /\ k >= i => grb = orig

\* a returned mapped slot whose source record has another level type, and
\* whose values changed
C14_Witness ==
    /\ result.returned
    /\ \E k \in DOMAIN result.grbs :
          /\ result.grbs[k].shortName = "tcwv"
          /\ result.grbs[k].typeOfLevel = "surface"
          /\ result.grbs[k].values # OrigSlot(result.grbs[k].messagenumber).values
          /\ \E e \in Range(log) :
                /\ e.slot = result.grbs[k].messagenumber
                /\ SourceMsg(e.source).typeOfLevel = "atmosphereSingleLayer"

\* C15 as stated: in every state in which the slot-resolution loop is
\* running, neither the template nor the source file handle is open.
C15_NoHandleOpenInLoop ==
    pc = "gfs_208" => (~tmplOpen /\ ~srcOpen)

\* C15: the template handle is open only while the template is read and is
\* released before the first slot is resolved; the source handle is opened
\* when the pool is built, stays open while the loop runs, and is released
\* when the loop is left, by return or by exception.
C15_SourceHandleOpenInLoop ==
    /\ tmplOpen => pc = "gfs_185"
    /\ srcOpen <=> pc = "gfs_208"

\* the loop has resolved one slot and the source handle is still open
C15_Witness ==
    /\ pc = "gfs_208"
    /\ i = 2
    /\ Len(log) = 1
    /\ srcOpen
    /\ ~tmplOpen

\* every matcher key is present on the record with the matcher's value
PresentAndEqual(grb, matchers) ==
    \A k \in DOMAIN matchers : k \in DOMAIN grb /\ grb[k] = matchers[k]

\* C16: a record matches exactly when every matcher key is present on it with
\* an equal value, and a record lacking a key only counts as a non-match: a
\* finished selection returned the one such record, or failed with the
\* no-match error when there is none and with the ambiguity error when there
\* are several.
C16_MissingKeyIsNonMatch ==
    sel.pc \in {"returned", "raised"} =>
        LET matches == { n \in DOMAIN sel.grbs :
                           PresentAndEqual(sel.grbs[n], sel.matchers) }
        IN  /\ Cardinality(matches) = 1 =>
                 /\ sel.pc = "returned"
                 /\ \E n \in matches : sel.grb = sel.grbs[n]
            /\ Cardinality(matches) = 0 =>
                 /\ sel.pc = "raised"
                 /\ sel.exc.type = "ValueError"
                 /\ sel.exc.line = 146
            /\ Cardinality(matches) > 1 =>
                 /\ sel.pc = "raised"
                 /\ sel.exc.line = 148

\* the loop of process_gdas_grib from slot k on, run without interruption
RECURSIVE LoopAlone(_, _, _)
LoopAlone(grbs, pool, k) ==
    IF k > Len(grbs)
    THEN [ok |-> TRUE, grbs |-> grbs]
    ELSE LET slot == ProcessSlot(grbs[k], pool) IN
         IF slot.ok
         THEN LoopAlone([grbs EXCEPT ![k] = slot.grb], pool, k + 1)
         ELSE [ok |-> FALSE, exc |-> slot.exc]

\* what process_gdas_grib gives for a template and a source when nothing
\* else runs
RunAlone(template, source) ==
    LET grbs == PygribOpen(template)
        pool == PygribSelectShortNames(PygribOpen(source), AllShortNames(grbs))
    IN  IF Len(pool) = 0
        THEN [ok |-> FALSE, exc |-> NoMatchesFound(206)]
        ELSE LoopAlone(grbs, pool, 1)

OpFinished(o) == ops # NoOps /\ ops[o].pc \in {"done", "failed"}

\* C17: under every interleaving of the steps of two process_gdas_grib calls,
\* each call ends as it would end when run alone on its template and source:
\* it returns the same messages or raises the same error.
C17_ConcurrentOpsIndependent ==
    \A o \in OpIds :
        OpFinished(o) =>
            LET alone == RunAlone(ops[o].templateFile, ops[o].sourceFile) IN
            /\ (ops[o].pc = "done") = alone.ok
            /\ ops[o].pc = "done" => ops[o].result = Returned(alone.grbs)
            /\ ops[o].pc = "failed" => ops[o].exc = alone.exc

\* two calls on different templates and different sources returned, each
\* having taken steps while the other was in the middle of its run
C17_Witness ==
    /\ ops # NoOps
    /\ ops[1].pc = "done" /\ ops[2].pc = "done"
    /\ ops[1].templateFile # ops[2].templateFile
    /\ ops[1].sourceFile # ops[2].sourceFile
    /\ ops[1].overlapped /\ ops[2].overlapped
    /\ Len(ops[1].result.grbs) = 2
    /\ Len(ops[2].result.grbs) = 2

\* C18: two runs of process_gdas_grib on the same template and the same
\* source end the same way, and when they return, their outputs have the same
\* length and agree slot by slot in short_name, level_type, level and values;
\* this holds when the second run starts after the first has ended as well as
\* when they overlap.
C18_RepeatedRunSameOutput ==
    ( /\ OpFinished(1) /\ OpFinished(2)
      /\ ops[1].templateFile = ops[2].templateFile
      /\ ops[1].sourceFile = ops[2].sourceFile ) =>
        /\ ops[1].pc = ops[2].pc
        /\ ops[1].exc = ops[2].exc
        /\ ops[1].pc = "done" =>
              /\ Len(ops[1].result.grbs) = Len(ops[2].result.grbs)
              /\ \A k \in DOMAIN ops[1].result.grbs :
                    LET a == ops[1].result.grbs[k]
                        b == ops[2].result.grbs[k]
                    IN  /\ a.shortName = b.shortName
                        /\ a.typeOfLevel = b.typeOfLevel
                        /\ a.level = b.level
                        /\ a.values = b.values

\* one run after the other on the same two files, both returning a scaled
\* and a copied slot
C18_Witness ==
    /\ ops # NoOps
    /\ ops[1].pc = "done" /\ ops[2].pc = "done"
    /\ ops[1].templateFile = ops[2].templateFile
    /\ ops[1].sourceFile = ops[2].sourceFile
    /\ ~ops[1].overlapped /\ ~ops[2].overlapped
    /\ Len(ops[2].result.grbs) = 2
    /\ ops[2].result.grbs[1].shortName = "z"
    /\ ops[2].result.grbs[1].values # Val(0)

Refused ==
    \/ app.model_name \notin {"panguweather", "fourcastnetv2-small", "graphcast"}
    \/ app.use_gfs /\ app.model_name # "panguweather"

C21_CheckPassesAfterDownload ==
    /\ (pc = "failed" /\ exc.line = 85) => ~cwdRaw
    /\ (caller = "prepare_gfs_analysis" /\ cwdRaw /\ pc = "failed") =>
          exc.line # 85

InTrace(event) == \E n \in DOMAIN app.trace : app.trace[n] = event

Configured(key) == key \in DOMAIN app.env /\ app.env[key] \notin {"", "{}"}

\* C22: generate_forecast skips the upload, calling upload_blob not at all,
\* whenever GCS_BUCKET_NAME is not set or the service account info is
\* missing; upload_blob is called only when both a bucket name and service
\* account info are configured.
C22_UploadOnlyWhenConfigured ==
    app.pc # "idle" =>
      /\ app.uploads # <<>> =>
            /\ Configured("GCS_BUCKET_NAME")
            /\ Configured("GCS_SERVICE_ACCOUNT_INFO")
      /\ ( /\ app.entry = "main"
           /\ app.pc = "done"
           /\ InTrace("run_start")
           /\ \/ "GCS_BUCKET_NAME" \notin DOMAIN app.env
              \/ ~Configured("GCS_SERVICE_ACCOUNT_INFO") ) =>
            (app.skipped /\ app.uploads = <<>>)

Precedes(first, second) ==
    \A m \in DOMAIN app.trace :
       app.trace[m] = second =>
          \E n \in 1..(m - 1) : app.trace[n] = first

RunModelCalled ==
    \E n \in DOMAIN app.calls : app.calls[n].fn = "run_model"

\* C23: in generate_forecast with use_gfs the steps are ordered:
\* _maybe_download_assets, which leaves the panguweather template in place,
\* has completed when prepare_gfs_analysis starts, and prepare_gfs_analysis
\* has completed when the model run starts; with use_gfs no model run starts
\* unless the processed file exists: without it the initialization of the
\* model raises RuntimeError.
C23_StepsOrdered ==
    (app.pc # "idle" /\ app.use_gfs) =>
      /\ app.entry = "main" =>
            /\ Precedes("assets_done", "pga_start")
            /\ Precedes("pga_start", "pga_done")
            /\ Precedes("pga_done", "init")
            /\ Precedes("init", "run_start")
            /\ (InTrace("pga_start") /\ app.model_name = "panguweather") =>
                  app.template_exists
      /\ InTrace("run_start") => app.proc_exists
      /\ (RunModelCalled /\ ~app.proc_exists /\ app.pc # "cls_222") =>
            /\ app.pc = "raised"
            /\ app.exc.type = "RuntimeError"
            /\ app.exc.line = 279
            /\ ~InTrace("init")

C23_Witness ==
    /\ app.pc = "done"
    /\ app.entry = "main"
    /\ app.use_gfs
    /\ app.model_name = "panguweather"
    /\ app.trace = <<"assets_done", "pga_start", "pga_done", "init",
                     "run_start">>
    /\ app.proc_exists

====
